---- MODULE Spec2Model ----
(***************************************************************************)
(* Company Catalog API: the relational store (buildings, activities,      *)
(* organizations, phones, organization_activity), the catalog service of  *)
(* app/crud.py and the request pipeline of app/api/endpoints.py.          *)
(*                                                                         *)
(* Optional[int] values are sets: {} is None, {v} is the integer v.       *)
(* Query results are sequences of primary keys in store order (by id).    *)
(* Distances and radii are integers in millimetres.                       *)
(***************************************************************************)
EXTENDS Integers, Sequences, FiniteSets, Bags, TLC

\* ---------------------------------------------------------------- bounds
MaxAct == 4      \* activity ids handed out by the store
MaxBld == 1      \* building ids handed out by the store
MaxOrg == 1      \* organization ids handed out by the store
MaxPhones == 1   \* longest phone_numbers list of a request
MaxIds == 2      \* longest activity_ids list of a request

\* ---------------------------------------------------------------- inputs
API_KEY == "secret-key-123"
Headers == {{}, {"wrong"}, {API_KEY}}
Coordinates == {<<0, 0>>, <<1, 2>>}
Radii == {-1, 0, 248575564, 248575565}
BoxRanges == {<<0, 0>>, <<1, 2>>, <<0, 2>>, <<2, 0>>}
OrgNames == {<<"A", "b">>}
NamePatterns == {<<>>, <<"a">>, <<"B", "a">>}
PhoneNumbers == {"2-222-222"}
LinkInputs == {1, 3}
ParentInputs == {{}} \cup {{v} : v \in -1..MaxAct}
Reqs == {1, 2}
SeqReqs == {1}

SeqsUpTo(S, n) == UNION {[1..k -> S] : k \in 0..n}
Range(s) == {s[i] : i \in 1..Len(s)}

VARIABLES fk_enforced, buildings, activities, organizations, phones,
          organization_activity, seqs, req

tables == <<buildings, activities, organizations, phones, organization_activity>>
store == <<tables, seqs>>
vars == <<fk_enforced, buildings, activities, organizations, phones,
          organization_activity, seqs, req>>

\* ------------------------------------------------------ store primitives
RECURSIVE SortedSeq(_)
SortedSeq(S) ==
    IF S = {} THEN <<>>
    ELSE LET m == CHOOSE x \in S : \A y \in S : x <= y
         IN <<m>> \o SortedSeq(S \ {m})

RECURSIVE Concat(_)
Concat(ss) == IF ss = <<>> THEN <<>> ELSE Head(ss) \o Concat(Tail(ss))

RECURSIVE Uniquify(_)
Uniquify(s) ==
    IF s = <<>> THEN <<>>
    ELSE LET rest == Uniquify(SubSeq(s, 1, Len(s) - 1))
             x == s[Len(s)]
         IN IF x \in Range(rest) THEN rest ELSE Append(rest, x)

Ids(T) == {t.id : t \in T}
Row(T, i) == CHOOSE t \in T : t.id = i

\* Python truthiness of an Optional[int]
Truthy(opt) == opt # {} /\ opt # {0}

\* ------------------------------------------------------------ geodesic
Abs(x) == IF x < 0 THEN -x ELSE x

GeodesicMm(p, q) ==
    IF p = q THEN 0
    ELSE IF {p, q} = {<<0, 0>>, <<1, 2>>} THEN 248575565
    ELSE 110574389 * Abs(p[1] - q[1]) + 111319491 * Abs(p[2] - q[2])

\* ------------------------------------------------------------------ ilike
Lower(c) == CASE c = "A" -> "a" [] c = "B" -> "b" [] OTHER -> c
ILikeContains(text, pat) ==
    \E i \in 0..(Len(text) - Len(pat)) :
        \A j \in 1..Len(pat) : Lower(text[i + j]) = Lower(pat[j])

\* ------------------------------------------------------------ crud reads
get_building(building_id) ==
    SortedSeq({b.id : b \in {x \in buildings : x.id = building_id}})

get_buildings(skip, limit) ==
    LET all == SortedSeq(Ids(buildings))
        last == IF skip + limit < Len(all) THEN skip + limit ELSE Len(all)
    IN SubSeq(all, skip + 1, last)

get_organizations_in_building(building_id) ==
    SortedSeq({o.id : o \in {x \in organizations : x.building_id = building_id}})

\* variant: the activity and its direct children only
get_all_children_direct(act) ==
    <<act>> \o SortedSeq({c.id : c \in {x \in activities : x.parent_id = {act}}})

RECURSIVE get_all_children(_)
get_all_children(act) ==
    LET children == SortedSeq({c.id : c \in {x \in activities : x.parent_id = {act}}})
    IN <<act>> \o Concat([i \in 1..Len(children) |-> get_all_children(children[i])])

\* the rows of organizations JOIN organization_activity, one per link row
JoinRows(activity_ids) ==
    LET orgs == SortedSeq(Ids(organizations))
        acts == SortedSeq(activity_ids)
        rowsOf(o) ==
            Concat([j \in 1..Len(acts) |->
                [k \in 1..CopiesIn([organization_id |-> o, activity_id |-> acts[j]],
                                   organization_activity) |-> o]])
    IN Concat([i \in 1..Len(orgs) |-> rowsOf(orgs[i])])

get_organizations_by_activity(activity_id) ==
    IF ~ \E x \in activities : x.id = activity_id THEN <<>>
    ELSE LET all_activities == get_all_children(activity_id)
         IN Uniquify(JoinRows(Range(all_activities)))

\* variant: the boundary is exclusive
get_organizations_by_radius_strict(lat, lon, radius) ==
    LET filtered_building_ids ==
            {b.id : b \in {x \in buildings :
                GeodesicMm(<<lat, lon>>, <<x.latitude, x.longitude>>) < radius}}
    IN SortedSeq({o.id : o \in {x \in organizations :
                                  x.building_id \in filtered_building_ids}})

get_organizations_by_radius(lat, lon, radius) ==
    LET filtered_building_ids ==
            {b.id : b \in {x \in buildings :
                GeodesicMm(<<lat, lon>>, <<x.latitude, x.longitude>>) <= radius}}
    IN SortedSeq({o.id : o \in {x \in organizations :
                                  x.building_id \in filtered_building_ids}})

\* variant: the upper longitude bound is exclusive
get_organizations_by_bbox_open(min_lat, max_lat, min_lon, max_lon) ==
    LET building_ids ==
            {b.id : b \in {x \in buildings :
                /\ x.latitude >= min_lat
                /\ x.latitude <= max_lat
                /\ x.longitude >= min_lon
                /\ x.longitude < max_lon}}
    IN SortedSeq({o.id : o \in {x \in organizations : x.building_id \in building_ids}})

get_organizations_by_bbox(min_lat, max_lat, min_lon, max_lon) ==
    LET building_ids ==
            {b.id : b \in {x \in buildings :
                /\ x.latitude >= min_lat
                /\ x.latitude <= max_lat
                /\ x.longitude >= min_lon
                /\ x.longitude <= max_lon}}
    IN SortedSeq({o.id : o \in {x \in organizations : x.building_id \in building_ids}})

get_organization(org_id) ==
    SortedSeq({o.id : o \in {x \in organizations : x.id = org_id}})

get_organizations_by_name(name) ==
    SortedSeq({o.id : o \in {x \in organizations : ILikeContains(x.name, name)}})

\* ------------------------------------------------------ request pipeline
Idle == [pc |-> "idle", db |-> 0, op |-> "", header |-> {}, a |-> <<>>,
         name |-> <<>>, phone_numbers |-> <<>>, activity_ids |-> <<>>,
         db_org |-> {}, new_phones |-> <<>>, new_activities |-> <<>>,
         status |-> 0, detail |-> "", result |-> <<>>]

\* variant: the header is optional and only a present key is compared
verify_api_key_optional(api_key) ==
    IF api_key # {} /\ api_key # {API_KEY} THEN 403 ELSE 0

\* verify_api_key: 0 when the key is accepted, else the status of the failure
verify_api_key(api_key) ==
    IF api_key = {} THEN 422
    ELSE IF api_key # {API_KEY} THEN 403
    ELSE 0

\* OrganizationResponse needs a building object for every organization returned
ResponseStatus(org_ids) ==
    IF \E i \in 1..Len(org_ids) :
           Row(organizations, org_ids[i]).building_id \notin Ids(buildings)
    THEN 500 ELSE 200

Respond(r, op, h, a, status, detail, result) ==
    req' = [req EXCEPT ![r] = [@ EXCEPT !.pc = "done", !.op = op, !.header = h,
                                        !.a = a, !.status = status,
                                        !.detail = detail, !.result = result]]

Reject(r, op, h) ==
    /\ Respond(r, op, h, <<>>, verify_api_key(h), "Invalid API Key", <<>>)
    /\ UNCHANGED <<fk_enforced, store>>

\* SessionLocal(): a new session object, distinct from every open one
get_db(r) ==
    /\ req[r].pc = "idle"
    /\ LET used == {req[q].db : q \in Reqs}
           s == CHOOSE n \in 1..(Cardinality(Reqs) + 1) :
                    n \notin used /\ \A m \in 1..(n - 1) : m \in used
       IN req' = [req EXCEPT ![r] = [Idle EXCEPT !.pc = "open", !.db = s]]
    /\ UNCHANGED <<fk_enforced, store>>

\* variant: the session is closed after the handler returns, with no finally
db_close_on_return(r) ==
    /\ req[r].pc = "done"
    /\ req[r].status = 200
    /\ req' = [req EXCEPT ![r] = Idle]
    /\ UNCHANGED <<fk_enforced, store>>

\* finally: db.close() -- whatever the session has not committed is rolled back
db_close(r) ==
    /\ req[r].pc = "done"
    /\ req' = [req EXCEPT ![r] = Idle]
    /\ UNCHANGED <<fk_enforced, store>>

read_root(r, h) ==
    /\ req[r].pc = "idle"
    /\ req' = [req EXCEPT ![r] = [Idle EXCEPT !.pc = "done", !.op = "read_root",
                                              !.header = h, !.status = 200]]
    /\ UNCHANGED <<fk_enforced, store>>

\* variant: every list endpoint answers 404 for an empty list
ReadList_strict(r, op, h, a, orgs, emptyIs404) ==
    /\ req[r].pc = "open"
    /\ IF verify_api_key(h) # 0 THEN Reject(r, op, h)
       ELSE /\ IF orgs = <<>>
               THEN Respond(r, op, h, a, 404, "not found", <<>>)
               ELSE Respond(r, op, h, a, ResponseStatus(orgs), "", orgs)
            /\ UNCHANGED <<fk_enforced, store>>

\* an endpoint that runs one query: the 404 of an empty list, or the list
ReadList(r, op, h, a, orgs, emptyIs404) ==
    /\ req[r].pc = "open"
    /\ IF verify_api_key(h) # 0 THEN Reject(r, op, h)
       ELSE /\ IF emptyIs404 /\ orgs = <<>>
               THEN Respond(r, op, h, a, 404, "not found", <<>>)
               ELSE Respond(r, op, h, a, ResponseStatus(orgs), "", orgs)
            /\ UNCHANGED <<fk_enforced, store>>

read_buildings(r, h, skip, limit) ==
    /\ req[r].pc = "open"
    /\ IF verify_api_key(h) # 0 THEN Reject(r, "read_buildings", h)
       ELSE /\ Respond(r, "read_buildings", h, <<skip, limit>>, 200, "",
                       get_buildings(skip, limit))
            /\ UNCHANGED <<fk_enforced, store>>

read_organizations_in_building(r, h, building_id) ==
    ReadList(r, "read_organizations_in_building", h, <<building_id>>,
             get_organizations_in_building(building_id), TRUE)

read_organizations_by_activity(r, h, activity_id) ==
    ReadList(r, "read_organizations_by_activity", h, <<activity_id>>,
             get_organizations_by_activity(activity_id), TRUE)

read_organizations_by_radius(r, h, lat, lon, radius) ==
    ReadList(r, "read_organizations_by_radius", h, <<lat, lon, radius>>,
             get_organizations_by_radius(lat, lon, radius), FALSE)

read_organizations_by_bbox(r, h, min_lat, max_lat, min_lon, max_lon) ==
    ReadList(r, "read_organizations_by_bbox", h, <<min_lat, max_lat, min_lon, max_lon>>,
             get_organizations_by_bbox(min_lat, max_lat, min_lon, max_lon), FALSE)

read_organization(r, h, org_id) ==
    ReadList(r, "read_organization", h, <<org_id>>, get_organization(org_id), TRUE)

search_organizations_by_name(r, h, name) ==
    /\ req[r].pc = "open"
    /\ IF verify_api_key(h) # 0 THEN Reject(r, "search_organizations_by_name", h)
       ELSE LET orgs == get_organizations_by_name(name)
            IN /\ req' = [req EXCEPT ![r] =
                     [@ EXCEPT !.pc = "done", !.op = "search_organizations_by_name",
                               !.header = h, !.name = name,
                               !.status = ResponseStatus(orgs),
                               !.result = orgs]]
               /\ UNCHANGED <<fk_enforced, store>>

\* ---------------------------------------------------------- crud creates
\* variant: the nesting check is off by one
create_activity_level_deep(parent_id) ==
    LET parent == {x \in activities : parent_id = {x.id}}
    IN IF Truthy(parent_id)
       THEN IF parent = {}
            THEN [error |-> "Parent activity not found", level |-> 0]
            ELSE LET level == (CHOOSE p \in parent : TRUE).level + 1
                 IN IF level > 3
                    THEN [error |-> "Maximum nesting level is 3", level |-> level]
                    ELSE [error |-> "", level |-> level]
       ELSE [error |-> "", level |-> 0]

\* create_activity up to the construction of the row: the validation outcome
create_activity_level(parent_id) ==
    LET parent == {x \in activities : parent_id = {x.id}}
    IN IF Truthy(parent_id)
       THEN IF parent = {}
            THEN [error |-> "Parent activity not found", level |-> 0]
            ELSE LET level == (CHOOSE p \in parent : TRUE).level + 1
                 IN IF level > 2
                    THEN [error |-> "Maximum nesting level is 3", level |-> level]
                    ELSE [error |-> "", level |-> level]
       ELSE [error |-> "", level |-> 0]

\* the store's check of activities.parent_id -> activities.id, when it enforces it
ParentFkViolated(parent_id) ==
    fk_enforced /\ parent_id # {} /\ ~ \E x \in activities : parent_id = {x.id}

\* variant: the INSERT also rewrites the level of the parent row
add_activity_touching_parent(db_activity) ==
    {IF {x.id} = db_activity.parent_id THEN [x EXCEPT !.level = db_activity.level]
     ELSE x : x \in activities} \cup {db_activity}

\* db.add(db_activity); db.commit(): one INSERT into activities
add_activity(db_activity) ==
    activities \cup {db_activity}

create_activity(r, h, parent_id) ==
    /\ req[r].pc = "open"
    /\ IF verify_api_key(h) # 0 THEN Reject(r, "create_activity", h)
       ELSE LET v == create_activity_level(parent_id)
                a == SortedSeq(parent_id)
            IN IF v.error # ""
               THEN /\ Respond(r, "create_activity", h, a, 400, v.error, <<>>)
                    /\ UNCHANGED <<fk_enforced, store>>
               ELSE /\ seqs.activity <= MaxAct
                    /\ IF ParentFkViolated(parent_id)
                       THEN /\ Respond(r, "create_activity", h, a, 500, "IntegrityError", <<>>)
                            /\ UNCHANGED <<activities, seqs>>
                       ELSE /\ activities' = add_activity(
                                   [id |-> seqs.activity, parent_id |-> parent_id,
                                    level |-> v.level])
                            /\ seqs' = [seqs EXCEPT !.activity = @ + 1]
                            /\ Respond(r, "create_activity", h, a, 200, "", <<seqs.activity>>)
                    /\ UNCHANGED <<fk_enforced, buildings, organizations, phones,
                                   organization_activity>>

create_building(r, h, latitude, longitude) ==
    /\ req[r].pc = "open"
    /\ IF verify_api_key(h) # 0 THEN Reject(r, "create_building", h)
       ELSE /\ seqs.building <= MaxBld
            /\ seqs' = [seqs EXCEPT !.building = @ + 1]
            /\ buildings' = buildings \cup
                   {[id |-> seqs.building, latitude |-> latitude, longitude |-> longitude]}
            /\ Respond(r, "create_building", h, <<latitude, longitude>>, 200, "",
                       <<seqs.building>>)
            /\ UNCHANGED <<fk_enforced, activities, organizations, phones,
                           organization_activity>>

\* variant: the building is checked whatever the store does
BuildingFkViolated_always(building_id) ==
    building_id \notin Ids(buildings)

\* the store's check of organizations.building_id -> buildings.id, when it enforces it
BuildingFkViolated(building_id) ==
    fk_enforced /\ building_id \notin Ids(buildings)

\* variant: the INSERT is committed at once (autocommit)
session_flush_autocommit(r, call, row) ==
    /\ req' = [req EXCEPT ![r] = [call EXCEPT !.pc = "flushed", !.db_org = {row}]]
    /\ organizations' = organizations \cup {row}

\* db.flush(): the row is written inside the session's open transaction
session_flush(r, call, row) ==
    /\ req' = [req EXCEPT ![r] = [call EXCEPT !.pc = "flushed", !.db_org = {row}]]
    /\ UNCHANGED organizations

\* a store failure: the statement raises, the request ends with the exception
Raise(r, detail) ==
    req' = [req EXCEPT ![r] = [@ EXCEPT !.pc = "done", !.status = 500, !.detail = detail]]

\* db.add(db_org); db.flush(): the INSERT runs inside the session's transaction
create_organization_flush(r, h, name, building_id, phone_numbers, activity_ids, fail) ==
    /\ req[r].pc = "open"
    /\ IF verify_api_key(h) # 0 THEN ~ fail /\ Reject(r, "create_organization", h)
       ELSE LET call == [req[r] EXCEPT !.op = "create_organization", !.header = h,
                                       !.a = <<building_id>>, !.name = name,
                                       !.phone_numbers = phone_numbers,
                                       !.activity_ids = activity_ids]
            IN /\ seqs.organization <= MaxOrg
               /\ IF fail
                  THEN /\ req' = [req EXCEPT ![r] = [call EXCEPT !.pc = "done",
                                      !.status = 500, !.detail = "OperationalError"]]
                       /\ UNCHANGED <<seqs, organizations>>
                  ELSE IF BuildingFkViolated(building_id)
                       THEN /\ req' = [req EXCEPT ![r] = [call EXCEPT !.pc = "done",
                                   !.status = 500, !.detail = "IntegrityError"]]
                            /\ UNCHANGED <<seqs, organizations>>
                       ELSE /\ seqs' = [seqs EXCEPT !.organization = @ + 1]
                            /\ session_flush(r, call,
                                   [id |-> seqs.organization, name |-> name,
                                    building_id |-> building_id])
               /\ UNCHANGED <<fk_enforced, buildings, activities, phones,
                              organization_activity>>

\* variant: every given id is linked, resolved or not
ResolveActivities_unfiltered(activity_ids) ==
    SortedSeq(Range(activity_ids))

\* Activity.id.in_(activity_ids): the existing activities among the ids, each once
ResolveActivities(activity_ids) ==
    SortedSeq({x.id : x \in {y \in activities : y.id \in Range(activity_ids)}})

\* the loop over phone_numbers, the activities query, db_org.activities = ...
create_organization_resolve(r, fail) ==
    /\ req[r].pc = "flushed"
    /\ IF fail THEN Raise(r, "OperationalError")
       ELSE req' = [req EXCEPT ![r] = [@ EXCEPT !.pc = "resolved",
                        !.new_phones = req[r].phone_numbers,
                        !.new_activities = ResolveActivities(req[r].activity_ids)]]
    /\ UNCHANGED <<fk_enforced, store>>

\* db.commit(); db.refresh(db_org); the endpoint's response
create_organization_commit(r, fail) ==
    /\ req[r].pc = "resolved"
    /\ IF fail THEN Raise(r, "OperationalError") /\ UNCHANGED <<fk_enforced, store>>
       ELSE LET s == req[r]
                org == CHOOSE o \in s.db_org : TRUE
            IN /\ organizations' = organizations \cup s.db_org
               /\ phones' = phones \cup
                      {[id |-> seqs.phone + i - 1, number |-> s.new_phones[i],
                        organization_id |-> org.id] : i \in 1..Len(s.new_phones)}
               /\ organization_activity' = organization_activity (+)
                      SetToBag({[organization_id |-> org.id,
                                 activity_id |-> s.new_activities[i]] :
                                    i \in 1..Len(s.new_activities)})
               /\ seqs' = [seqs EXCEPT !.phone = @ + Len(s.new_phones)]
               /\ req' = [req EXCEPT ![r] = [@ EXCEPT !.pc = "done", !.db_org = {},
                              !.status = IF org.building_id \in Ids(buildings)
                                         THEN 200 ELSE 500,
                              !.result = <<org.id>>]]
               /\ UNCHANGED <<fk_enforced, buildings, activities>>

\* ------------------------------------------------------- specification
Init ==
    /\ fk_enforced \in BOOLEAN
    /\ buildings = {}
    /\ activities = {}
    /\ organizations = {}
    /\ phones = {}
    /\ organization_activity = EmptyBag
    /\ seqs = [building |-> 1, activity |-> 1, organization |-> 1, phone |-> 1]
    /\ req = [r \in Reqs |-> Idle]

Next ==
    \E r \in SeqReqs, h \in Headers :
        \/ get_db(r)
        \/ db_close(r)
        \/ read_root(r, h)
        \/ \E skip \in {0, 1}, limit \in {1, 100} : read_buildings(r, h, skip, limit)
        \/ \E b \in 1..(MaxBld + 1) : read_organizations_in_building(r, h, b)
        \/ \E a \in 1..(MaxAct + 1) : read_organizations_by_activity(r, h, a)
        \/ \E c \in Coordinates, radius \in Radii :
               read_organizations_by_radius(r, h, c[1], c[2], radius)
        \/ \E lats \in BoxRanges, lons \in BoxRanges :
               read_organizations_by_bbox(r, h, lats[1], lats[2], lons[1], lons[2])
        \/ \E o \in 1..(MaxOrg + 1) : read_organization(r, h, o)
        \/ \E n \in NamePatterns : search_organizations_by_name(r, h, n)
        \/ \E p \in ParentInputs : create_activity(r, h, p)
        \/ \E c \in Coordinates : create_building(r, h, c[1], c[2])
        \/ \E n \in OrgNames, b \in 1..MaxBld,
              ps \in SeqsUpTo(PhoneNumbers, MaxPhones),
              as \in SeqsUpTo(LinkInputs, MaxIds), fail \in BOOLEAN :
               create_organization_flush(r, h, n, b, ps, as, fail)
        \/ \E fail \in BOOLEAN : create_organization_resolve(r, fail)
        \/ \E fail \in BOOLEAN : create_organization_commit(r, fail)

Spec == Init /\ [][Next]_vars

\* two requests at a time, served by threads of the pool
ConcParents == {{}, {1}}
ConcIds == {<<1>>, <<1, 2>>}

NextConc ==
    \E r \in Reqs, h \in {{API_KEY}} :
        \/ get_db(r)
        \/ db_close(r)
        \/ \E o \in 1..MaxOrg : read_organization(r, h, o)
        \/ \E p \in ConcParents : create_activity(r, h, p)
        \/ create_building(r, h, 0, 0)
        \/ \E n \in OrgNames, ps \in {<<"2-222-222">>}, as \in ConcIds, fail \in BOOLEAN :
               create_organization_flush(r, h, n, 1, ps, as, fail)
        \/ \E fail \in BOOLEAN : create_organization_resolve(r, fail)
        \/ \E fail \in BOOLEAN : create_organization_commit(r, fail)

SpecConc == Init /\ [][NextConc]_vars

\* a step of the thread that serves request r, once r has its session
Serve(r) ==
    /\ req[r].pc # "idle"
    /\ NextConc
    /\ req'[r] # req[r]

\* a thread that serves a request keeps running until the request has ended
SpecConcFair == SpecConc /\ \A r \in Reqs : WF_vars(Serve(r))

\* ------------------------------------------------------------ properties
Done(r, op) ==
    /\ req[r].pc = "done"
    /\ req[r].op = op
    /\ req[r].header = {API_KEY}

NoDuplicates(s) == \A i, j \in 1..Len(s) : i # j => s[i] # s[j]

\* x and the activities reached from x by following parent_id upwards
RECURSIVE SelfAndAncestors(_, _)
SelfAndAncestors(x, fuel) ==
    IF fuel = 0 THEN {x}
    ELSE LET ps == UNION {y.parent_id : y \in {z \in activities : z.id = x}}
         IN {x} \cup UNION {SelfAndAncestors(p, fuel - 1) : p \in ps}

InSubtree(x, root) == root \in SelfAndAncestors(x, Cardinality(activities))

LinkedToSubtree(root) ==
    {o.id : o \in {x \in organizations :
        \E l \in BagToSet(organization_activity) :
            l.organization_id = x.id /\ InSubtree(l.activity_id, root)}}

\* C1: for every existing activity, the organizations returned for it are
\* exactly those linked to the activity or to one of its transitive
\* descendants, each of them once.
Thm_C1 ==
    \A act \in activities :
        LET res == get_organizations_by_activity(act.id)
        IN NoDuplicates(res) /\ Range(res) = LinkedToSubtree(act.id)

\* a root was queried, and the organization returned once is linked to two
\* activities of its subtree, one of them a grandchild
Wit_C1 ==
    \E r \in Reqs :
        /\ Done(r, "read_organizations_by_activity")
        /\ Len(req[r].result) = 1
        /\ \E root \in activities, g \in activities :
            /\ req[r].a = <<root.id>>
            /\ root.level = 0 /\ g.level = 2
            /\ InSubtree(g.id, root.id)
            /\ \E l1, l2 \in BagToSet(organization_activity) :
                /\ l1.activity_id = g.id
                /\ l2.activity_id # g.id
                /\ InSubtree(l2.activity_id, root.id)
                /\ l1.organization_id = req[r].result[1]
                /\ l2.organization_id = req[r].result[1]

\* C2: every stored activity with a parent reference has an existing parent
\* and level = parent.level + 1, every stored activity without one has
\* level 0, and every level is within 0..2.
CE_C2 ==
    \A x \in activities :
        /\ x.parent_id # {} =>
               \E p \in activities : x.parent_id = {p.id} /\ x.level = p.level + 1
        /\ x.parent_id = {} => x.level = 0
        /\ x.level \in 0..2

ParentAtLevel(a, level) ==
    Len(a) = 1 /\ \E x \in activities : x.id = a[1] /\ x.level = level

\* C3: a create_activity whose parent is at level 2 ends with the nesting
\* validation error (400) and leaves every table and id sequence as it was.
Thm_C3 ==
    [][\A r \in Reqs :
          ( /\ req[r].pc = "open"
            /\ req'[r].pc = "done"
            /\ req'[r].op = "create_activity"
            /\ req'[r].header = {API_KEY}
            /\ ParentAtLevel(req'[r].a, 2) )
          => ( /\ req'[r].status = 400
               /\ req'[r].detail = "Maximum nesting level is 3"
               /\ req'[r].result = <<>>
               /\ store' = store )]_vars

Wit_C3 ==
    \E r \in Reqs :
        /\ Done(r, "create_activity")
        /\ ParentAtLevel(req[r].a, 2)
        /\ req[r].status = 400
        /\ Cardinality(activities) = 3

\* C4: a create_activity given a parent_id that identifies no existing activity
\* ends with the 'parent not found' validation error and stores nothing; a
\* stored root (level 0) comes only from a request without parent_id.
CE_C4 ==
    \A r \in Reqs :
        Done(r, "create_activity") =>
            /\ (Len(req[r].a) = 1 /\ req[r].a[1] \notin Ids(activities) \ Range(req[r].result))
                   => ( /\ req[r].status = 400
                        /\ req[r].detail = "Parent activity not found"
                        /\ req[r].result = <<>> )
            /\ (req[r].result # <<>> /\ Row(activities, req[r].result[1]).level = 0)
                   => req[r].a = <<>>

OwnPhones(o) == {p \in phones : p.organization_id = o}
OwnLinks(o) == {l \in BagToSet(organization_activity) : l.organization_id = o}

\* the rows a committed create_organization leaves for organization o
CommittedAsAsked(r, o) ==
    /\ \E x \in organizations :
           x.id = o /\ x.name = req[r].name /\ <<x.building_id>> = req[r].a
    /\ {l.activity_id : l \in OwnLinks(o)} = Range(req[r].activity_ids) \cap Ids(activities)
    /\ \A l \in OwnLinks(o) : CopiesIn(l, organization_activity) = 1
    /\ Cardinality(OwnPhones(o)) = Len(req[r].phone_numbers)
    /\ \A n \in PhoneNumbers :
           Cardinality({p \in OwnPhones(o) : p.number = n})
               = Cardinality({i \in 1..Len(req[r].phone_numbers) : req[r].phone_numbers[i] = n})

\* C5: a create_organization that meets no store failure is committed whatever
\* activity ids it was given: the organization is linked once to each given id
\* that identifies an existing activity and to nothing else, and owns one phone
\* per element of phone_numbers; with an existing building the answer is 200.
Thm_C5 ==
    \A r \in Reqs :
        Done(r, "create_organization") =>
            /\ req[r].result = <<>> => req[r].detail \in {"OperationalError", "IntegrityError"}
            /\ req[r].detail = "IntegrityError" => req[r].a[1] \notin Ids(buildings)
            /\ req[r].result # <<>> =>
                   /\ CommittedAsAsked(r, req[r].result[1])
                   /\ req[r].a[1] \in Ids(buildings) => req[r].status = 200

\* committed with one id that resolves and one that does not, and a phone
Wit_C5 ==
    \E r \in Reqs :
        /\ Done(r, "create_organization")
        /\ req[r].status = 200
        /\ Len(req[r].phone_numbers) = 1
        /\ \E i, j \in 1..Len(req[r].activity_ids) :
               /\ req[r].activity_ids[i] \in Ids(activities)
               /\ req[r].activity_ids[j] \notin Ids(activities)
        /\ Cardinality(OwnLinks(req[r].result[1])) = 1

\* committed with the same id given twice: one link
Wit_C5_repeated ==
    \E r \in Reqs :
        /\ Done(r, "create_organization")
        /\ req[r].result # <<>>
        /\ Len(req[r].activity_ids) = 2
        /\ req[r].activity_ids[1] = req[r].activity_ids[2]
        /\ BagCardinality(organization_activity) = 1

\* ids the store handed out to organizations that have no committed row
Uncommitted == (1..(seqs.organization - 1)) \ Ids(organizations)

AllOrNothing ==
    /\ \A p \in phones : p.organization_id \in Ids(organizations)
    /\ \A l \in BagToSet(organization_activity) : l.organization_id \in Ids(organizations)
    /\ \A r \in Reqs : \A o \in req[r].db_org : o.id \in Uncommitted
    /\ \A r \in Reqs :
           (req[r].pc = "done" /\ req[r].op = "create_organization" /\ req[r].result # <<>>)
           => LET o == req[r].result[1]
              IN /\ o \in Ids(organizations)
                 /\ Cardinality(OwnPhones(o)) = Len(req[r].new_phones)
                 /\ {l.activity_id : l \in OwnLinks(o)} = Range(req[r].new_activities)

\* an organization row appears only in the commit of its request, in the same
\* step as all its phones and links; other steps touch no row of organizations
CommitIsWhole ==
    /\ \A o \in Ids(organizations') \ Ids(organizations) :
           \E r \in Reqs :
               /\ req[r].pc = "resolved" /\ req'[r].pc = "done"
               /\ req[r].db_org = {Row(organizations', o)}
               /\ Cardinality({p \in phones' : p.organization_id = o}) = Len(req[r].new_phones)
               /\ {l.activity_id : l \in {k \in BagToSet(organization_activity') :
                                             k.organization_id = o}}
                      = Range(req[r].new_activities)
    /\ \A o \in Ids(organizations) :
           /\ o \in Ids(organizations')
           /\ {p \in phones' : p.organization_id = o} = OwnPhones(o)
           /\ {l \in BagToSet(organization_activity') : l.organization_id = o} = OwnLinks(o)
    /\ \A r \in Reqs :
           (req[r].pc \in {"flushed", "resolved"} /\ req'[r].pc = "done"
            /\ req'[r].result = <<>>)
           => tables' = tables

\* a read of an organization whose creating request has not committed finds nothing
PendingIsInvisible ==
    \A r \in Reqs :
        (req[r].pc = "open" /\ req'[r].pc = "done" /\ req'[r].op = "read_organization"
         /\ req'[r].header = {API_KEY} /\ Len(req'[r].a) = 1 /\ req'[r].a[1] \in Uncommitted)
        => req'[r].status = 404

\* C6: in every state the committed tables hold an organization with all its
\* phones and resolved links or nothing of it: rows of a flushed but uncommitted
\* organization are in no table, a failure after the flush leaves the tables as
\* they were, and the commit adds the row, its phones and its links in one step.
Thm_C6 == []AllOrNothing /\ [][CommitIsWhole /\ PendingIsInvisible]_vars

\* one request reads the organization and gets 404 while the request creating
\* it has flushed the row and not committed
Wit_C6 ==
    \E r, q \in Reqs :
        /\ req[r].pc \in {"flushed", "resolved"}
        /\ Done(q, "read_organization")
        /\ \E o \in req[r].db_org : req[q].a = <<o.id>>
        /\ req[q].status = 404

\* the request failed after the flush and nothing of it is in the tables
Wit_C6_failed ==
    \E r \in Reqs :
        /\ req[r].pc = "done" /\ req[r].op = "create_organization"
        /\ req[r].detail = "OperationalError"
        /\ req[r].db_org # {}
        /\ req[r].new_activities # <<>>
        /\ organizations = {} /\ phones = {} /\ organization_activity = EmptyBag

AuthFailure(status) == status \in {403, 422}

Wit_C7_missing ==
    \E r \in Reqs :
        /\ req[r].pc = "done" /\ req[r].op = "read_organization"
        /\ req[r].header = {} /\ req[r].status = 422
        /\ organizations # {}

NotFoundCase(r) ==
    \/ /\ req[r].op = "read_organization"
       /\ req[r].a[1] \notin Ids(organizations)
    \/ /\ req[r].op = "read_organizations_in_building"
       /\ ~ \E o \in organizations : o.building_id = req[r].a[1]
    \/ /\ req[r].op = "read_organizations_by_activity"
       /\ \/ req[r].a[1] \notin Ids(activities)
          \/ LinkedToSubtree(req[r].a[1]) = {}

NeverNotFound ==
    {"read_organizations_by_radius", "read_organizations_by_bbox",
     "search_organizations_by_name", "read_buildings"}

Wit_C8_empty ==
    \E r \in Reqs :
        /\ Done(r, "read_organizations_by_radius")
        /\ req[r].status = 200 /\ req[r].result = <<>>
        /\ organizations # {}

MissingBuilding(r) ==
    /\ Done(r, "create_organization")
    /\ req[r].a[1] \notin Ids(buildings)
    /\ req[r].detail # "OperationalError"

\* C9 as stated: with a building_id that identifies no building the call
\* succeeds and the organization is persisted with that building_id.
CE_C9 ==
    \A r \in Reqs :
        MissingBuilding(r) =>
            /\ req[r].result # <<>>
            /\ \E o \in organizations : <<o.id>> = req[r].result /\ <<o.building_id>> = req[r].a

\* C9: create_organization itself never checks building_id. On a store that does
\* not enforce the foreign key organizations.building_id -> buildings.id the call
\* commits the organization with that building_id, its phones and its resolved
\* links, and the endpoint answers 500 since the response has no building to
\* show; on a store that enforces it the flush raises an integrity error and
\* nothing is persisted.
Thm_C9 ==
    \A r \in Reqs :
        MissingBuilding(r) =>
            IF fk_enforced
            THEN /\ req[r].result = <<>>
                 /\ req[r].detail = "IntegrityError"
                 /\ req[r].status = 500
                 /\ req[r].db_org = {}
            ELSE /\ req[r].result # <<>>
                 /\ CommittedAsAsked(r, req[r].result[1])
                 /\ req[r].status = 500

Wit_C9 ==
    \E r \in Reqs :
        /\ MissingBuilding(r)
        /\ ~ fk_enforced
        /\ \E o \in organizations : o.building_id \notin Ids(buildings)
        /\ phones # {} /\ organization_activity # EmptyBag

Wit_C9_enforced ==
    \E r \in Reqs :
        /\ MissingBuilding(r)
        /\ fk_enforced
        /\ req[r].detail = "IntegrityError"
        /\ seqs.building <= req[r].a[1] /\ organizations = {}

BuildingOf(o) == {b \in buildings : b.id = o.building_id}

\* C10: for every center and radius, an organization is returned by the radius
\* search exactly when its building exists and lies within the radius: kept at
\* distance = radius, dropped at any greater distance, and nothing is returned
\* for a negative radius.
Thm_C10 ==
    \A c \in Coordinates, radius \in Radii :
        LET res == Range(get_organizations_by_radius(c[1], c[2], radius))
            dist(b) == GeodesicMm(c, <<b.latitude, b.longitude>>)
        IN /\ res \subseteq Ids(organizations)
           /\ \A o \in organizations :
                 /\ BuildingOf(o) = {} => o.id \notin res
                 /\ \A b \in BuildingOf(o) :
                       /\ dist(b) = radius => o.id \in res
                       /\ dist(b) < radius => o.id \in res
                       /\ dist(b) > radius => o.id \notin res
           /\ radius < 0 => res = {}

\* the building of the organization returned is exactly radius away
Wit_C10 ==
    \E r \in Reqs :
        /\ Done(r, "read_organizations_by_radius")
        /\ req[r].result # <<>>
        /\ req[r].a[3] > 0
        /\ \E o \in organizations : \E b \in BuildingOf(o) :
               /\ <<o.id>> = req[r].result
               /\ GeodesicMm(<<req[r].a[1], req[r].a[2]>>, <<b.latitude, b.longitude>>)
                      = req[r].a[3]

\* a negative radius with the building at the center
Wit_C10_negative ==
    \E r \in Reqs :
        /\ Done(r, "read_organizations_by_radius")
        /\ req[r].a[3] < 0 /\ req[r].result = <<>>
        /\ \E o \in organizations : \E b \in BuildingOf(o) :
               <<b.latitude, b.longitude>> = <<req[r].a[1], req[r].a[2]>>

BoxValues == 0..2

\* the organizations whose building exists and has exactly these coordinates
HousedAt(lat, lon) ==
    {o.id : o \in {x \in organizations :
        \E b \in BuildingOf(x) : b.latitude = lat /\ b.longitude = lon}}

\* C11: for every box, an organization is returned by the bounding-box search
\* exactly when its building exists and has min_lat <= latitude <= max_lat and
\* min_lon <= longitude <= max_lon; a box with min = max in both dimensions
\* returns the organizations of the buildings at that coordinate, and a box with
\* min > max in a dimension returns nothing.
Thm_C11 ==
    \A lo1 \in BoxValues, hi1 \in BoxValues, lo2 \in BoxValues, hi2 \in BoxValues :
        LET res == Range(get_organizations_by_bbox(lo1, hi1, lo2, hi2))
        IN /\ res \subseteq Ids(organizations)
           /\ \A o \in organizations :
                 /\ BuildingOf(o) = {} => o.id \notin res
                 /\ \A b \in BuildingOf(o) :
                       o.id \in res <=>
                           ( /\ ~ (b.latitude < lo1) /\ ~ (hi1 < b.latitude)
                             /\ ~ (b.longitude < lo2) /\ ~ (hi2 < b.longitude) )
           /\ (lo1 = hi1 /\ lo2 = hi2) => res = HousedAt(lo1, lo2)
           /\ (lo1 > hi1 \/ lo2 > hi2) => res = {}

\* the building of the organization returned lies on the upper bounds of the box
Wit_C11 ==
    \E r \in Reqs :
        /\ Done(r, "read_organizations_by_bbox")
        /\ req[r].result # <<>>
        /\ \E o \in organizations : \E b \in BuildingOf(o) :
               /\ <<o.id>> = req[r].result
               /\ b.latitude > req[r].a[1] /\ b.latitude < req[r].a[2]
               /\ b.longitude > req[r].a[3] /\ b.longitude = req[r].a[4]

\* a degenerate box on the coordinate of the organization's building
Wit_C11_point ==
    \E r \in Reqs :
        /\ Done(r, "read_organizations_by_bbox")
        /\ req[r].result # <<>>
        /\ req[r].a[1] = req[r].a[2] /\ req[r].a[3] = req[r].a[4]

\* an inverted box around the coordinate of an existing organization's building
Wit_C11_inverted ==
    \E r \in Reqs :
        /\ Done(r, "read_organizations_by_bbox")
        /\ req[r].a[1] > req[r].a[2]
        /\ req[r].result = <<>> /\ req[r].status = 200
        /\ \E o \in organizations : BuildingOf(o) # {}

\* the activity reached from x by k parent references, {} when the chain breaks
RECURSIVE AncestorAt(_, _)
AncestorAt(x, k) ==
    IF k = 0 THEN {y \in activities : y.id = x}
    ELSE UNION {AncestorAt(p, k - 1) :
                  p \in UNION {y.parent_id : y \in {z \in activities : z.id = x}}}

Acyclic ==
    \A x \in activities, k \in 1..Cardinality(activities) :
        \A y \in AncestorAt(x.id, k) : y.id # x.id

\* every chain of parent references ends, within two steps, at an activity
\* without parent reference
ReachesRoot ==
    \A x \in activities :
        \E k \in 0..2 : \E y \in AncestorAt(x.id, k) : y.parent_id = {}

\* the descendant collection visits each activity of the subtree once, and so
\* ends after at most as many calls as there are activities
VisitsOnce ==
    \A x \in activities :
        LET all == get_all_children(x.id)
        IN /\ NoDuplicates(all)
           /\ Len(all) <= Cardinality(activities)
           /\ Range(all) = {y.id : y \in {z \in activities : InSubtree(z.id, x.id)}}

\* C12: the parent_id edges form an acyclic forest in which every chain of
\* parent references reaches a root within 2 steps, and the recursive
\* descendant collection visits each activity of the subtree exactly once.
CE_C12 == Acyclic /\ ReachesRoot /\ VisitsOnce

\* a request holds a session exactly while it is in flight
HoldsSession(r) == req[r].db # 0

SessionScoped ==
    \A r \in Reqs :
        /\ HoldsSession(r) <=> req[r].pc # "idle"
        /\ \A q \in Reqs \ {r} : HoldsSession(r) => req[q].db # req[r].db

\* C13: every request that acquires a session eventually releases it, on
\* every exit path (success, 404, 400, store failure part-way through
\* create_organization); no request ends while holding its session, and no
\* session is shared between two requests.
Thm_C13 ==
    /\ []SessionScoped
    /\ \A r \in Reqs : HoldsSession(r) ~> ~ HoldsSession(r)
    /\ [][\A r \in Reqs : req[r].pc = "done" /\ req'[r].pc # "done"
                              => req'[r] = Idle]_vars

\* two requests in flight, each with its own session, one of them failed
\* part-way through create_organization
Wit_C13 ==
    \E r \in Reqs, q \in Reqs :
        /\ r # q
        /\ HoldsSession(r) /\ HoldsSession(q)
        /\ Done(r, "create_organization") /\ req[r].status = 500
        /\ req[r].db_org # {}

Wit_C13_notfound ==
    \E r \in Reqs : Done(r, "read_organization") /\ req[r].status = 404
                    /\ HoldsSession(r)

Wit_C13_invalid ==
    \E r \in Reqs : Done(r, "create_activity") /\ req[r].status = 400
                    /\ HoldsSession(r)

Wit_C13_success ==
    \E r \in Reqs : Done(r, "create_organization") /\ req[r].status = 200
                    /\ HoldsSession(r)

ReadOps ==
    {"read_buildings", "read_organizations_in_building",
     "read_organizations_by_activity", "read_organizations_by_radius",
     "read_organizations_by_bbox", "read_organization",
     "search_organizations_by_name", "read_root"}

\* no row is removed or altered, and a new row never takes an identifier in use
OnlyGrows ==
    /\ buildings \subseteq buildings'
    /\ activities \subseteq activities'
    /\ organizations \subseteq organizations'
    /\ phones \subseteq phones'
    /\ organization_activity \sqsubseteq organization_activity'
    /\ Ids(buildings' \ buildings) \cap Ids(buildings) = {}
    /\ Ids(activities' \ activities) \cap Ids(activities) = {}
    /\ Ids(organizations' \ organizations) \cap Ids(organizations) = {}
    /\ Ids(phones' \ phones) \cap Ids(phones) = {}
    /\ \A t \in {buildings', activities', organizations', phones'} :
           Cardinality(Ids(t)) = Cardinality(t)

\* the rows a create operation may add: those of the entity it creates
CreateFrame(r) ==
    LET s == req'[r]
        ok == s.status = 200 \/ (s.op = "create_organization" /\ s.result # <<>>)
    IN /\ s.op = "create_activity" =>
            /\ UNCHANGED <<buildings, organizations, phones, organization_activity>>
            /\ IF ok THEN Ids(activities' \ activities) = Range(s.result)
                          /\ Len(s.result) = 1
               ELSE UNCHANGED activities
       /\ s.op = "create_building" =>
            /\ UNCHANGED <<activities, organizations, phones, organization_activity>>
            /\ IF ok THEN Ids(buildings' \ buildings) = Range(s.result)
                          /\ Len(s.result) = 1
               ELSE UNCHANGED buildings
       /\ s.op = "create_organization" =>
            /\ UNCHANGED <<buildings, activities>>
            /\ IF ok /\ s.pc = "done"
               THEN /\ Ids(organizations' \ organizations) = Range(s.result)
                    /\ Len(s.result) = 1
                    /\ \A p \in phones' \ phones : p.organization_id = s.result[1]
                    /\ Cardinality(phones' \ phones) = Len(s.new_phones)
                    /\ \A l \in BagToSet(organization_activity') :
                           CopiesIn(l, organization_activity') #
                               CopiesIn(l, organization_activity)
                           => l.organization_id = s.result[1]
               ELSE UNCHANGED tables

\* C14: the store only grows: a read or search leaves the five tables
\* unchanged; a create adds only rows of the entity it creates, with fresh
\* identifiers, and never modifies or removes an existing row (in particular
\* the level and parent of an existing activity).
Thm_C14 ==
    [][/\ OnlyGrows
       /\ \A r \in Reqs :
              IF req'[r] = req[r] \/ req'[r].pc \in {"idle", "open"}
              THEN req'[r] # req[r] => UNCHANGED tables
              ELSE /\ req'[r].op \in ReadOps => UNCHANGED tables
                   /\ req'[r].op \notin ReadOps => CreateFrame(r)]_vars

\* a child activity was created and its parent is still the row it was
Wit_C14 ==
    \E r \in Reqs :
        /\ Done(r, "create_activity") /\ req[r].status = 200
        /\ \E x \in activities, y \in activities :
               /\ <<x.id>> = req[r].result
               /\ x.parent_id = {y.id} /\ y.level = 0 /\ y.parent_id = {}

\* an organization with a phone and a link was created beside existing rows
Wit_C14_organization ==
    \E r \in Reqs :
        /\ Done(r, "create_organization") /\ req[r].status = 200
        /\ phones # {} /\ organization_activity # EmptyBag
        /\ Cardinality(activities) > 1 /\ buildings # {}

\* a search answered from a store that holds rows of every table
Wit_C14_read ==
    \E r \in Reqs :
        /\ Done(r, "read_organizations_by_activity") /\ req[r].status = 200
        /\ phones # {} /\ organization_activity # EmptyBag

====
